---- MODULE Spec2Model ----
(***************************************************************************)
(* Model of the Pi Cluster master node (src/master_node/app/app.py): the   *)
(* Redis job hashes, the three priority lists, and the Flask handlers      *)
(* that read and write them.  Every Redis command is one atomic step; a    *)
(* handler is the sequence of its Redis commands, run by a request thread. *)
(***************************************************************************)
EXTENDS Integers, Sequences, FiniteSets, TLC

\* ---------------------------------------------------------------- bounds
MaxJobs == 2
NumThreads == 2
MaxClock == 2
MaxCrashes == 1
MaxSleeps == 5
LoopJobs == 1

JobIds == 1..MaxJobs
Threads == 1..NumThreads

\* ------------------------------------------------------- program constants
Prios == <<"0", "1", "2">>
PrioSet == {"0", "1", "2"}
PrioInputs == PrioSet \cup {"7"}
WorkerAddrs == {"10.0.0.7"}
NoTime == 0
NoElapsed == 0 - 1
NoJob == 0
NoRecord == [f \in {} |-> 0]
WorkerIds == {"w1", "w2"}
PruneTimeout == 10
ActiveCutoff == 20
PruneInterval == 5
Unparseable == <<"unparseable", 0>>
PrunerIdle == [pc |-> "sleep", now |-> <<"naive", 0>>, keys |-> <<>>]
WorkerOff == [pc |-> "off", job |-> NoJob]

VARIABLES
    store,      \* Redis hashes: job id -> field mapping (NoRecord: key absent)
    queue,      \* Redis lists job_queue_prio0/1/2
    nextId,     \* number of uuid4 ids handed out so far, plus one
    clock,      \* wall clock in seconds, as now_str() reads it
    phase,      \* "up": app.run is serving; "down": the process is stopped
    slots,      \* how many requests the server has in flight at most
    crashes,    \* number of restarts so far
    pc,         \* position of each request thread in its handler
    arg,        \* job_id of the handler a thread runs
    local,      \* the handler's local dict (job / job_data)
    resp,       \* the HTTP response the last step sent (NoResp: it sent none)
    returned,   \* history: how many claim_job responses carried each job id
    enqLog,     \* history: <<id, prio>> of pending entries, in rpush order
    seen,       \* history: entries that were pending when a claim call began
    workers,    \* Redis hashes worker:<id> (NoRecord: key absent)
    pruner,     \* the prune_loop thread: its position and the locals of its scan
    wproc       \* the worker processes (worker.py): position in run_worker, job at hand

vars == <<store, queue, nextId, clock, phase, slots, crashes, pc, arg, local, resp,
          returned, enqLog, seen, workers, pruner, wproc>>

\* ----------------------------------------------------------------- helpers
Get(job, f, default) == IF f \in DOMAIN job THEN job[f] ELSE default

Truthy(job, f) ==
    /\ f \in DOMAIN job
    /\ job[f] # (CASE f \in {"timestamp_claimed", "timestamp_completed", "timestamp_queued",
                             "result_filename", "filename"} -> NoTime
                   [] f = "elapsed_seconds" -> NoElapsed
                   [] OTHER -> "")

\* r.hset(key, mapping=m): the fields of m overwrite, every other field stays
Hset(old, m) ==
    [f \in DOMAIN old \cup DOMAIN m |-> IF f \in DOMAIN m THEN m[f] ELSE old[f]]

\* r.lrem(name, 0, x): every occurrence of x is removed
Lrem(s, x) == SelectSeq(s, LAMBDA e : e # x)

\* rpush replaced by a push at the head of the list
Rpush_front(s, x) == <<x>> \o s

\* r.rpush(name, x)
Rpush(s, x) == Append(s, x)

\* a pop that answers the last element while the head is removed
LpopValue_last(s) == IF s = <<>> THEN NoJob ELSE s[Len(s)]

\* a pop that leaves the element in the list
LpopRest_peek(s) == s

\* r.lpop(name): the popped element (NoJob for None) and the remaining list
LpopValue(s) == IF s = <<>> THEN NoJob ELSE Head(s)
LpopRest(s) == IF s = <<>> THEN s ELSE Tail(s)

InSeq(x, s) == \E i \in 1..Len(s) : s[i] = x

\* the difference taken the wrong way round
calc_elapsed_swapped(start, end) == start - end

calc_elapsed(start, end) == end - start

\* the loop over the lists skipping job_queue_prio1
NextPrio_skip(p) == "2"

\* the loop staying at the list it found empty
NextPrio_wait(p) == p

NextPrio(p) == IF p = "0" THEN "1" ELSE "2"
PopPc(p) == IF p = "0" THEN "cl_pop0" ELSE IF p = "1" THEN "cl_pop1" ELSE "cl_pop2"

NoResp == [op |-> "none", code |-> 0, id |-> NoJob]

\* history bookkeeping of the pending entries
LogDrop(log, x) == SelectSeq(log, LAMBDA e : e[1] # x)
LogDropFirst(log, x) ==
    IF \E i \in 1..Len(log) : log[i][1] = x
    THEN LET k == CHOOSE i \in 1..Len(log) :
                     /\ log[i][1] = x
                     /\ \A h \in 1..(i-1) : log[h][1] # x
         IN [i \in 1..(Len(log)-1) |-> IF i < k THEN log[i] ELSE log[i+1]]
    ELSE log

\* ------------------------------------------------------------------- Init
InitWith(n) ==
    /\ slots = n
    /\ store = [j \in JobIds |-> NoRecord]
    /\ queue = [p \in PrioSet |-> <<>>]
    /\ nextId = 1
    /\ clock = 1
    /\ phase = "up"
    /\ crashes = 0
    /\ pc = [t \in Threads |-> "idle"]
    /\ arg = [t \in Threads |-> NoJob]
    /\ local = [t \in Threads |-> NoRecord]
    /\ resp = NoResp
    /\ returned = [j \in JobIds |-> 0]
    /\ enqLog = <<>>
    /\ seen = [t \in Threads |-> {}]
    /\ workers = [w \in WorkerIds |-> NoRecord]
    /\ pruner = PrunerIdle
    /\ wproc = [w \in WorkerIds |-> WorkerOff]

\* the server handles one request at a time
Init == InitWith(1)

\* the threaded server: up to NumThreads requests in flight
InitThreaded == InitWith(NumThreads)

Finish(t, r) ==
    /\ pc' = [pc EXCEPT ![t] = "idle"]
    /\ arg' = [arg EXCEPT ![t] = NoJob]
    /\ local' = [local EXCEPT ![t] = NoRecord]
    /\ resp' = r

\* A request is served by a fresh thread: it takes the lowest free slot.
Ready(t) ==
    /\ phase = "up"
    /\ t <= slots
    /\ pc[t] = "idle"
    /\ \A u \in Threads : u < t => pc[u] # "idle"

\* ----------------------------------------------------------------- upload
job_data(id, prio, now) ==
    [id |-> id, filename |-> id, priority |-> prio, status |-> "queued",
     timestamp_queued |-> now, timestamp_claimed |-> NoTime,
     timestamp_completed |-> NoTime, claimed_by |-> "",
     elapsed_seconds |-> NoElapsed, result_filename |-> NoTime,
     collected |-> "False"]

UploadRejected(t, file, prio) ==
    /\ Ready(t)
    /\ (~file \/ prio \notin PrioSet)
    /\ Finish(t, [op |-> "upload", code |-> 400, id |-> NoJob])
    /\ UNCHANGED <<store, queue, nextId, clock, phase, slots, workers, pruner, wproc, crashes, returned, enqLog, seen>>

Upload(t, prio) ==
    /\ Ready(t)
    /\ prio \in PrioSet
    /\ nextId <= MaxJobs
    /\ store' = [store EXCEPT ![nextId] = Hset(@, job_data(nextId, prio, clock))]
    /\ nextId' = nextId + 1
    /\ pc' = [pc EXCEPT ![t] = "up_push"]
    /\ arg' = [arg EXCEPT ![t] = nextId]
    /\ local' = [local EXCEPT ![t] = job_data(nextId, prio, clock)]
    /\ resp' = NoResp
    /\ UNCHANGED <<queue, clock, phase, slots, workers, pruner, wproc, crashes, returned, enqLog, seen>>

UploadPush(t) ==
    /\ pc[t] = "up_push"
    /\ queue' = [queue EXCEPT ![local[t].priority] = Rpush(@, arg[t])]
    /\ enqLog' = Append(enqLog, <<arg[t], local[t].priority>>)
    /\ Finish(t, [op |-> "upload", code |-> 201, id |-> arg[t]])
    /\ UNCHANGED <<store, nextId, clock, phase, slots, workers, pruner, wproc, crashes, returned, seen>>

\* -------------------------------------------------------------- claim_job
LpopStep(t, p) ==
    LET job_id == LpopValue(queue[p]) IN
    /\ queue' = [queue EXCEPT ![p] = LpopRest(@)]
    /\ enqLog' = IF job_id = NoJob THEN enqLog ELSE LogDropFirst(enqLog, job_id)
    /\ IF job_id # NoJob
       THEN /\ pc' = [pc EXCEPT ![t] = "cl_read"]
            /\ arg' = [arg EXCEPT ![t] = job_id]
            /\ local' = local
            /\ resp' = NoResp
       ELSE IF p = "2"
            THEN Finish(t, [op |-> "claim_job", code |-> 200, id |-> NoJob])
            ELSE /\ pc' = [pc EXCEPT ![t] = PopPc(NextPrio(p))]
                 /\ UNCHANGED <<arg, local>>
                 /\ resp' = NoResp
    /\ UNCHANGED <<store, nextId, clock, phase, slots, workers, pruner, wproc, crashes, returned>>

ClaimBegin(t) ==
    /\ Ready(t)
    /\ seen' = [seen EXCEPT ![t] = {enqLog[i] : i \in 1..Len(enqLog)}]
    /\ LpopStep(t, "0")

ClaimPop(t, p) ==
    /\ pc[t] = PopPc(p)
    /\ seen' = IF p = "0" THEN [seen EXCEPT ![t] = {enqLog[i] : i \in 1..Len(enqLog)}]
               ELSE seen
    /\ LpopStep(t, p)

ClaimRead(t, w) ==
    /\ pc[t] = "cl_read"
    /\ local' = [local EXCEPT ![t] =
                   Hset(store[arg[t]], [status |-> "claimed",
                                        timestamp_claimed |-> clock,
                                        claimed_by |-> w])]
    /\ pc' = [pc EXCEPT ![t] = "cl_write"]
    /\ resp' = NoResp
    /\ UNCHANGED <<store, queue, nextId, clock, phase, slots, workers, pruner, wproc, crashes, arg, returned, enqLog, seen>>

ClaimWrite(t) ==
    /\ pc[t] = "cl_write"
    /\ store' = [store EXCEPT ![arg[t]] = Hset(@, local[t])]
    /\ returned' = [returned EXCEPT ![arg[t]] = @ + 1]
    /\ seen' = [seen EXCEPT ![t] = {}]
    /\ Finish(t, [op |-> "claim_job", code |-> 200, id |-> arg[t]])
    /\ UNCHANGED <<queue, nextId, clock, phase, slots, workers, pruner, wproc, crashes, enqLog>>

\* ---------------------------------------------------------- upload_result
result_fields(job, now) ==
    LET base == [result_filename |-> now, status |-> "completed",
                 timestamp_completed |-> now, collected |-> "False"]
    IN IF Truthy(job, "timestamp_claimed")
       THEN Hset(base, [elapsed_seconds |-> calc_elapsed(job["timestamp_claimed"], now)])
       ELSE base

UploadResultRejected(t, j) ==
    /\ Ready(t)
    /\ Finish(t, [op |-> "upload_result", code |-> 400, id |-> j])
    /\ UNCHANGED <<store, queue, nextId, clock, phase, slots, workers, pruner, wproc, crashes, returned, enqLog, seen>>

UploadResult(t, j) ==
    /\ Ready(t)
    /\ IF store[j] = NoRecord
       THEN Finish(t, [op |-> "upload_result", code |-> 404, id |-> j])
       ELSE /\ pc' = [pc EXCEPT ![t] = "ur_write"]
            /\ arg' = [arg EXCEPT ![t] = j]
            /\ local' = [local EXCEPT ![t] = Hset(store[j], result_fields(store[j], clock))]
            /\ resp' = NoResp
    /\ UNCHANGED <<store, queue, nextId, clock, phase, slots, workers, pruner, wproc, crashes, returned, enqLog, seen>>

UploadResultWrite(t) ==
    /\ pc[t] = "ur_write"
    /\ store' = [store EXCEPT ![arg[t]] = Hset(@, local[t])]
    /\ Finish(t, [op |-> "upload_result", code |-> 200, id |-> arg[t]])
    /\ UNCHANGED <<queue, nextId, clock, phase, slots, workers, pruner, wproc, crashes, returned, enqLog, seen>>

\* -------------------------------------------------------- download_result
DownloadResult(t, j) ==
    /\ Ready(t)
    /\ IF store[j] = NoRecord \/ ~Truthy(store[j], "result_filename")
       THEN Finish(t, [op |-> "download_result", code |-> 404, id |-> j])
       ELSE /\ pc' = [pc EXCEPT ![t] = "dl_write"]
            /\ arg' = [arg EXCEPT ![t] = j]
            /\ local' = [local EXCEPT ![t] = Hset(store[j], [collected |-> "True"])]
            /\ resp' = NoResp
    /\ UNCHANGED <<store, queue, nextId, clock, phase, slots, workers, pruner, wproc, crashes, returned, enqLog, seen>>

DownloadResultWrite(t) ==
    /\ pc[t] = "dl_write"
    /\ store' = [store EXCEPT ![arg[t]] = Hset(@, local[t])]
    /\ Finish(t, [op |-> "download_result", code |-> 200, id |-> arg[t]])
    /\ UNCHANGED <<queue, nextId, clock, phase, slots, workers, pruner, wproc, crashes, returned, enqLog, seen>>

\* --------------------------------------------------------- mark_collected
collected_fields == [collected |-> "True"]

\* mark_collected without the status test
mark_collected_code_nostatus(job) == IF job = NoRecord THEN 404 ELSE 200

\* mark_collected refusing a job that is collected already
mark_collected_code_once(job) ==
    IF job = NoRecord THEN 404
    ELSE IF Get(job, "status", "") # "completed" THEN 400
    ELSE IF Get(job, "collected", "") = "True" THEN 400
    ELSE 200

mark_collected_code(job) ==
    IF job = NoRecord THEN 404
    ELSE IF Get(job, "status", "") # "completed" THEN 400
    ELSE 200

MarkCollected(t, j) ==
    /\ Ready(t)
    /\ IF mark_collected_code(store[j]) # 200
       THEN Finish(t, [op |-> "mark_collected", code |-> mark_collected_code(store[j]),
                       id |-> j])
       ELSE /\ pc' = [pc EXCEPT ![t] = "mc_write"]
            /\ arg' = [arg EXCEPT ![t] = j]
            /\ local' = [local EXCEPT ![t] = Hset(store[j], collected_fields)]
            /\ resp' = NoResp
    /\ UNCHANGED <<store, queue, nextId, clock, phase, slots, workers, pruner, wproc, crashes, returned, enqLog, seen>>

MarkCollectedWrite(t) ==
    /\ pc[t] = "mc_write"
    /\ store' = [store EXCEPT ![arg[t]] = Hset(@, local[t])]
    /\ Finish(t, [op |-> "mark_collected", code |-> 200, id |-> arg[t]])
    /\ UNCHANGED <<queue, nextId, clock, phase, slots, workers, pruner, wproc, crashes, returned, enqLog, seen>>

\* ------------------------------------------------------------- delete_job
LremPc(p) == IF p = "0" THEN "del_lrem0" ELSE IF p = "1" THEN "del_lrem1" ELSE "del_lrem2"

DeleteJob(t, j) ==
    /\ Ready(t)
    /\ IF store[j] = NoRecord
       THEN Finish(t, [op |-> "delete_job", code |-> 404, id |-> j])
       ELSE /\ pc' = [pc EXCEPT ![t] = LremPc("0")]
            /\ arg' = [arg EXCEPT ![t] = j]
            /\ local' = [local EXCEPT ![t] = store[j]]
            /\ resp' = NoResp
    /\ UNCHANGED <<store, queue, nextId, clock, phase, slots, workers, pruner, wproc, crashes, returned, enqLog, seen>>

DeleteLrem(t, p) ==
    /\ pc[t] = LremPc(p)
    /\ queue' = [queue EXCEPT ![p] = Lrem(@, arg[t])]
    /\ enqLog' = IF InSeq(arg[t], queue[p]) THEN LogDrop(enqLog, arg[t]) ELSE enqLog
    /\ pc' = [pc EXCEPT ![t] = IF p = "2" THEN "del_key" ELSE LremPc(NextPrio(p))]
    /\ resp' = NoResp
    /\ UNCHANGED <<store, nextId, clock, phase, slots, workers, pruner, wproc, crashes, arg, local, returned, seen>>

DeleteKey(t) ==
    /\ pc[t] = "del_key"
    /\ store' = [store EXCEPT ![arg[t]] = NoRecord]
    /\ Finish(t, [op |-> "delete_job", code |-> 200, id |-> arg[t]])
    /\ UNCHANGED <<queue, nextId, clock, phase, slots, workers, pruner, wproc, crashes, returned, enqLog, seen>>

\* ------------------------------------------------- scanning the registry
\* Times of the registry are texts of datetime.isoformat(): <<kind, seconds>>,
\* kind "aware" when the text carries a UTC offset and "naive" when it has
\* none. Subtracting a naive from an aware datetime raises TypeError.

\* datetime.fromisoformat succeeds on the value
Parses(v) == v[1] \in {"naive", "aware"}

WorkerOrders == {o \in [1..Cardinality(WorkerIds) -> WorkerIds] :
                    \A a, b \in DOMAIN o : o[a] = o[b] => a = b}

\* r.keys("worker:*"): the keys that exist, in an order Redis chooses
worker_keys(order) == SelectSeq(order, LAMBDA w : workers[w] # NoRecord)

\* what prune_dead_workers does with the record w it read: "delete" it,
\* "raise" out of the function, or "keep" it
prune_check(w, now, timeout) ==
    IF w = NoRecord THEN "delete"
    ELSE IF "last_heartbeat" \notin DOMAIN w \/ ~Parses(w["last_heartbeat"]) THEN "raise"
    ELSE IF w["last_heartbeat"][1] # now[1] THEN "raise"
    ELSE IF now[2] - w["last_heartbeat"][2] > timeout THEN "delete"
    ELSE "keep"

\* prune_dead_workers run on its own, before the server starts: ok is FALSE
\* when an exception left the function
RECURSIVE startup_prune(_, _, _, _)
startup_prune(keys, ws, now, timeout) ==
    IF keys = <<>> THEN [ok |-> TRUE, workers |-> ws]
    ELSE LET c == prune_check(ws[Head(keys)], now, timeout)
         IN  IF c = "raise" THEN [ok |-> FALSE, workers |-> ws]
             ELSE startup_prune(Tail(keys),
                                IF c = "delete" THEN [ws EXCEPT ![Head(keys)] = NoRecord]
                                ELSE ws,
                                now, timeout)

\* ------------------------------------------------------ startup recovery
\* the orders in which r.keys("*") may list the job hashes
KeyOrders == {o \in [1..MaxJobs -> JobIds] : \A a, b \in 1..MaxJobs : a # b => o[a] # o[b]}

\* all_jobs: the hashes, read once, in key order
all_jobs(st, order) ==
    SelectSeq([i \in 1..MaxJobs |-> st[order[i]]], LAMBDA job : job # NoRecord)

\* recovery that enqueues without looking at the list
RECURSIVE restore_nocheck(_, _)
restore_nocheck(jobs, q) ==
    IF jobs = <<>> THEN q
    ELSE LET job == Head(jobs)
             qname == Get(job, "priority", "1")
         IN IF Get(job, "status", "") = "queued"
            THEN restore_nocheck(Tail(jobs), [q EXCEPT ![qname] = Rpush(@, job["id"])])
            ELSE restore_nocheck(Tail(jobs), q)

\* recovery that also re-queues the jobs a worker had claimed
RECURSIVE restore_claimed(_, _)
restore_claimed(jobs, q) ==
    IF jobs = <<>> THEN q
    ELSE LET job == Head(jobs)
             qname == Get(job, "priority", "1")
         IN IF /\ Get(job, "status", "") \in {"queued", "claimed"}
               /\ "id" \in DOMAIN job
               /\ ~InSeq(job["id"], q[qname])
            THEN restore_claimed(Tail(jobs), [q EXCEPT ![qname] = Rpush(@, job["id"])])
            ELSE restore_claimed(Tail(jobs), q)

RECURSIVE restore(_, _)
restore(jobs, q) ==
    IF jobs = <<>> THEN q
    ELSE LET job == Head(jobs)
             qname == Get(job, "priority", "1")
         IN IF Get(job, "status", "") = "queued" /\ ~InSeq(job["id"], q[qname])
            THEN restore(Tail(jobs), [q EXCEPT ![qname] = Rpush(@, job["id"])])
            ELSE restore(Tail(jobs), q)

\* restored: the number of rpush calls the loop makes
RECURSIVE restored(_, _)
restored(jobs, q) ==
    IF jobs = <<>> THEN 0
    ELSE LET job == Head(jobs)
             qname == Get(job, "priority", "1")
         IN IF Get(job, "status", "") = "queued" /\ ~InSeq(job["id"], q[qname])
            THEN 1 + restored(Tail(jobs), [q EXCEPT ![qname] = Rpush(@, job["id"])])
            ELSE restored(Tail(jobs), q)

repopulate_queues(st, q, order) == restore(all_jobs(st, order), q)

RECURSIVE restoreLog(_, _, _)
restoreLog(jobs, q, log) ==
    IF jobs = <<>> THEN log
    ELSE LET job == Head(jobs)
             qname == Get(job, "priority", "1")
         IN IF Get(job, "status", "") = "queued" /\ ~InSeq(job["id"], q[qname])
            THEN restoreLog(Tail(jobs), [q EXCEPT ![qname] = Rpush(@, job["id"])],
                            Append(log, <<job["id"], qname>>))
            ELSE restoreLog(Tail(jobs), q, log)

\* the process stops; the request threads die with it.  The lists are either
\* kept or lost (a non-durable queue backing store).
Crash(lose) ==
    /\ phase = "up"
    /\ crashes < MaxCrashes
    /\ phase' = "down"
    /\ crashes' = crashes + 1
    /\ pc' = [t \in Threads |-> "idle"]
    /\ arg' = [t \in Threads |-> NoJob]
    /\ local' = [t \in Threads |-> NoRecord]
    /\ seen' = [t \in Threads |-> {}]
    /\ resp' = NoResp
    /\ queue' = IF lose THEN [p \in PrioSet |-> <<>>] ELSE queue
    /\ enqLog' = IF lose THEN <<>> ELSE enqLog
    /\ UNCHANGED <<store, nextId, clock, slots, workers, pruner, wproc, returned>>

\* __main__: prune_dead_workers(timeout=0) and repopulate_queues() run before
\* the prune thread starts and app.run() serves any request; an exception in
\* the prune ends the start
Recover(order) ==
    /\ phase = "down"
    /\ phase' = "up"
    /\ \E worder \in WorkerOrders :
         LET pruned == startup_prune(worker_keys(worder), workers, <<"naive", clock>>, 0)
         IN  pruned.ok /\ workers' = pruned.workers
    /\ pruner' = PrunerIdle
    /\ queue' = repopulate_queues(store, queue, order)
    /\ enqLog' = restoreLog(all_jobs(store, order), queue, enqLog)
    /\ resp' = [op |-> "repopulate_queues", id |-> NoJob,
                code |-> restored(all_jobs(store, order), queue)]
    /\ UNCHANGED <<store, nextId, clock, slots, crashes, pc, arg, local, returned, seen, wproc>>

\* ------------------------------------------------------------------ clock
Tick ==
    /\ clock < MaxClock
    /\ clock' = clock + 1
    /\ resp' = NoResp
    /\ UNCHANGED <<store, queue, nextId, phase, slots, workers, pruner, wproc, crashes, pc, arg, local, returned, enqLog, seen>>

UploadNext ==
    \/ \E t \in Threads, file \in BOOLEAN, prio \in PrioInputs : UploadRejected(t, file, prio)
    \/ \E t \in Threads, prio \in PrioInputs : Upload(t, prio)
    \/ \E t \in Threads : UploadPush(t)

ClaimNext ==
    \/ \E t \in Threads : ClaimBegin(t)
    \/ \E t \in Threads, p \in {"1", "2"} : ClaimPop(t, p)
    \/ \E t \in Threads, w \in WorkerAddrs : ClaimRead(t, w)
    \/ \E t \in Threads : ClaimWrite(t)

ResultNext ==
    \/ \E t \in Threads, j \in JobIds : UploadResultRejected(t, j)
    \/ \E t \in Threads, j \in JobIds : UploadResult(t, j)
    \/ \E t \in Threads : UploadResultWrite(t)
    \/ \E t \in Threads, j \in JobIds : DownloadResult(t, j)
    \/ \E t \in Threads : DownloadResultWrite(t)
    \/ \E t \in Threads, j \in JobIds : MarkCollected(t, j)
    \/ \E t \in Threads : MarkCollectedWrite(t)

DeleteNext ==
    \/ \E t \in Threads, j \in JobIds : DeleteJob(t, j)
    \/ \E t \in Threads, p \in PrioSet : DeleteLrem(t, p)
    \/ \E t \in Threads : DeleteKey(t)

RestartNext ==
    \/ \E lose \in BOOLEAN : Crash(lose)
    \/ \E order \in KeyOrders : Recover(order)

\* every handler, one request at a time
Next == UploadNext \/ ClaimNext \/ ResultNext \/ DeleteNext \/ RestartNext \/ Tick

Spec == Init /\ [][Next]_vars

\* submit, claim, deleteJob and restarts, with requests in flight concurrently
QueueNext == UploadNext \/ ClaimNext \/ DeleteNext \/ RestartNext \/ Tick

SpecQueue == InitThreaded /\ [][QueueNext]_vars

\* the race of claim calls alone: N calls enter claim_job against lists that
\* hold N queued jobs, and nothing else runs
RaceN == IF MaxJobs < NumThreads THEN MaxJobs ELSE NumThreads

InitRace ==
    /\ slots = NumThreads
    /\ \E prio \in [1..RaceN -> PrioSet], order \in KeyOrders :
         /\ store = [j \in JobIds |-> IF j <= RaceN THEN job_data(j, prio[j], 1)
                                      ELSE NoRecord]
         /\ queue = [p \in PrioSet |->
                       SelectSeq(order, LAMBDA j : j <= RaceN /\ prio[j] = p)]
         /\ enqLog = [i \in 1..Len(SelectSeq(order, LAMBDA j : j <= RaceN)) |->
                        <<SelectSeq(order, LAMBDA j : j <= RaceN)[i],
                          prio[SelectSeq(order, LAMBDA j : j <= RaceN)[i]]>>]
    /\ nextId = RaceN + 1
    /\ clock = 1
    /\ phase = "up"
    /\ crashes = 0
    /\ pc = [t \in Threads |-> IF t <= RaceN THEN PopPc("0") ELSE "idle"]
    /\ arg = [t \in Threads |-> NoJob]
    /\ local = [t \in Threads |-> NoRecord]
    /\ resp = NoResp
    /\ returned = [j \in JobIds |-> 0]
    /\ seen = [t \in Threads |-> {}]
    /\ workers = [w \in WorkerIds |-> NoRecord]
    /\ pruner = PrunerIdle
    /\ wproc = [w \in WorkerIds |-> WorkerOff]

RaceNext ==
    \/ \E t \in Threads, p \in PrioSet : ClaimPop(t, p)
    \/ \E t \in Threads, w \in WorkerAddrs : ClaimRead(t, w)
    \/ \E t \in Threads : ClaimWrite(t)
    \/ Tick

SpecClaimRace == InitRace /\ [][RaceNext]_vars

\* ------------------------------------------------------- worker registry
\* Time passes in steps of PruneInterval seconds in the specifications of the
\* registry.
jobState == <<store, queue, nextId, phase, slots, crashes, returned, enqLog, seen, wproc>>

worker_data(w, now) ==
    [worker_id |-> w, hostname |-> "", ip |-> "10.0.0.7", os |-> "unknown",
     cpu |-> "unknown", kernel |-> "unknown", task_runner |-> "default",
     last_heartbeat |-> <<"naive", now>>, status |-> "online"]

WorkerFields == DOMAIN worker_data("w1", 0)

HeartbeatInputs == {<<"aware", clock>>, Unparseable}

WorkerResp(op, code, active) ==
    [op |-> op, code |-> code, id |-> NoJob, workers |-> active]

RegisterRejected(t) ==
    /\ Ready(t)
    /\ Finish(t, WorkerResp("register_worker", 400, <<>>))
    /\ UNCHANGED <<jobState, clock, workers, pruner>>

RegisterWorker(t, w) ==
    /\ Ready(t)
    /\ workers' = [workers EXCEPT ![w] = Hset(@, worker_data(w, clock))]
    /\ Finish(t, WorkerResp("register_worker", 200, <<>>))
    /\ UNCHANGED <<jobState, clock, pruner>>

HeartbeatRejected(t) ==
    /\ Ready(t)
    /\ Finish(t, WorkerResp("heartbeat", 400, <<>>))
    /\ UNCHANGED <<jobState, clock, workers, pruner>>

\* timestamp is taken, then r.exists answers
Heartbeat(t, w, timestamp) ==
    /\ Ready(t)
    /\ IF workers[w] = NoRecord
       THEN Finish(t, WorkerResp("heartbeat", 404, <<>>))
       ELSE /\ pc' = [pc EXCEPT ![t] = "hb_time"]
            /\ local' = [local EXCEPT ![t] = [worker_id |-> w,
                                              last_heartbeat |-> timestamp]]
            /\ resp' = NoResp
            /\ UNCHANGED arg
    /\ UNCHANGED <<jobState, clock, workers, pruner>>

HeartbeatTime(t) ==
    /\ pc[t] = "hb_time"
    /\ workers' = [workers EXCEPT ![local[t].worker_id] =
                     Hset(@, [last_heartbeat |-> local[t].last_heartbeat])]
    /\ pc' = [pc EXCEPT ![t] = "hb_status"]
    /\ resp' = NoResp
    /\ UNCHANGED <<jobState, clock, arg, local, pruner>>

HeartbeatStatus(t) ==
    /\ pc[t] = "hb_status"
    /\ workers' = [workers EXCEPT ![local[t].worker_id] =
                     Hset(@, [status |-> "online"])]
    /\ Finish(t, WorkerResp("heartbeat", 200, <<>>))
    /\ UNCHANGED <<jobState, clock, pruner>>

\* what get_workers does with the record w it read: "delete" it, "raise"
\* out of the handler, or report it "active"
get_workers_check(w, now, cutoff) ==
    IF w = NoRecord THEN "delete"
    ELSE IF "last_heartbeat" \notin DOMAIN w \/ ~Parses(w["last_heartbeat"]) THEN "delete"
    ELSE IF w["last_heartbeat"][1] # now[1] THEN "raise"
    ELSE IF now[2] - w["last_heartbeat"][2] > cutoff THEN "delete"
    ELSE "active"

\* the loop of get_workers moves to the next key, or the handler returns
GetWorkersAdvance(t, active) ==
    IF Tail(local[t].keys) = <<>>
    THEN Finish(t, WorkerResp("get_workers", 200, active))
    ELSE /\ pc' = [pc EXCEPT ![t] = "gw_read"]
         /\ local' = [local EXCEPT ![t] = [now |-> local[t].now,
                                           keys |-> Tail(local[t].keys),
                                           active |-> active]]
         /\ resp' = NoResp
         /\ UNCHANGED arg

GetWorkers(t, order) ==
    /\ Ready(t)
    /\ IF worker_keys(order) = <<>>
       THEN Finish(t, WorkerResp("get_workers", 200, <<>>))
       ELSE /\ pc' = [pc EXCEPT ![t] = "gw_read"]
            /\ local' = [local EXCEPT ![t] = [now |-> <<"aware", clock>>,
                                              keys |-> worker_keys(order),
                                              active |-> <<>>]]
            /\ resp' = NoResp
            /\ UNCHANGED arg
    /\ UNCHANGED <<jobState, clock, workers, pruner>>

GetWorkersRead(t) ==
    /\ pc[t] = "gw_read"
    /\ LET w == workers[Head(local[t].keys)]
           c == get_workers_check(w, local[t].now, ActiveCutoff)
       IN  CASE c = "delete" -> /\ pc' = [pc EXCEPT ![t] = "gw_del"]
                                /\ resp' = NoResp
                                /\ UNCHANGED <<arg, local>>
             [] c = "raise" -> Finish(t, WorkerResp("get_workers", 500, <<>>))
             [] OTHER -> GetWorkersAdvance(t, Append(local[t].active, w))
    /\ UNCHANGED <<jobState, clock, workers, pruner>>

GetWorkersDelete(t) ==
    /\ pc[t] = "gw_del"
    /\ workers' = [workers EXCEPT ![Head(local[t].keys)] = NoRecord]
    /\ GetWorkersAdvance(t, local[t].active)
    /\ UNCHANGED <<jobState, clock, pruner>>

PrunerDead == [pc |-> "dead", now |-> <<"naive", 0>>, keys |-> <<>>]

\* the loop of prune_dead_workers moves to the next key, or the thread sleeps
PruneAdvance ==
    IF Tail(pruner.keys) = <<>> THEN PrunerIdle
    ELSE [pruner EXCEPT !.pc = "read", !.keys = Tail(pruner.keys)]

\* prune_loop wakes up: prune_dead_workers reads the clock and the keys
PruneBegin(order) ==
    /\ phase = "up"
    /\ pruner.pc = "sleep"
    /\ pruner' = IF worker_keys(order) = <<>> THEN PrunerIdle
                 ELSE [pc |-> "read", now |-> <<"naive", clock>>,
                       keys |-> worker_keys(order)]
    /\ resp' = NoResp
    /\ UNCHANGED <<jobState, clock, pc, arg, local, workers>>

\* an exception leaves prune_dead_workers and prune_loop: the thread ends
PruneRead ==
    /\ phase = "up"
    /\ pruner.pc = "read"
    /\ LET c == prune_check(workers[Head(pruner.keys)], pruner.now, PruneTimeout)
       IN  pruner' = CASE c = "delete" -> [pruner EXCEPT !.pc = "del"]
                       [] c = "raise" -> PrunerDead
                       [] OTHER -> PruneAdvance
    /\ resp' = NoResp
    /\ UNCHANGED <<jobState, clock, pc, arg, local, workers>>

PruneDelete ==
    /\ phase = "up"
    /\ pruner.pc = "del"
    /\ workers' = [workers EXCEPT ![Head(pruner.keys)] = NoRecord]
    /\ pruner' = PruneAdvance
    /\ resp' = NoResp
    /\ UNCHANGED <<jobState, clock, pc, arg, local>>

\* one period of the prune loop passes on the wall clock
Elapse ==
    /\ clock < 1 + PruneInterval * MaxSleeps
    /\ clock' = clock + PruneInterval
    /\ resp' = NoResp
    /\ UNCHANGED <<jobState, pc, arg, local, workers, pruner>>

RegistryNext ==
    \/ \E t \in Threads : RegisterRejected(t)
    \/ \E t \in Threads, w \in WorkerIds : RegisterWorker(t, w)
    \/ \E t \in Threads : HeartbeatRejected(t)
    \/ \E t \in Threads, w \in WorkerIds, ts \in HeartbeatInputs : Heartbeat(t, w, ts)
    \/ \E t \in Threads : HeartbeatTime(t)
    \/ \E t \in Threads : HeartbeatStatus(t)
    \/ \E t \in Threads, order \in WorkerOrders : GetWorkers(t, order)
    \/ \E t \in Threads : GetWorkersRead(t)
    \/ \E t \in Threads : GetWorkersDelete(t)

PrunerNext ==
    \/ \E order \in WorkerOrders : PruneBegin(order)
    \/ PruneRead
    \/ PruneDelete

\* the registry handlers, one request at a time, beside the prune thread
WorkerNext == RegistryNext \/ PrunerNext \/ Elapse

SpecWorkers == Init /\ [][WorkerNext]_vars

\* ------------------------------------------------------- worker process
\* run_worker of worker.py beside the server: the process is at one call at a
\* time and waits for its answer; the server serves the call with the
\* handler's own steps, one request at a time.
Procs == {"w1"}

\* the answer the process is waiting for, by the handler that sends it
Awaiting(w) ==
    CASE wproc[w].pc = "register" -> "register_worker"
      [] wproc[w].pc = "heartbeat" -> "heartbeat"
      [] wproc[w].pc = "claim" -> "claim_job"
      [] wproc[w].pc = "upload_result" -> "upload_result"
      [] OTHER -> "no call"

\* an answer to a worker process is on its way
Answered == \E w \in Procs : resp.op = Awaiting(w)

workerFrame == <<store, queue, nextId, clock, phase, slots, crashes, pc, arg, local,
                 returned, enqLog, seen, workers, pruner>>

\* the process starts: run_worker calls register_with_master, once
WorkerStart(w) ==
    /\ wproc[w].pc = "off"
    /\ wproc' = [wproc EXCEPT ![w] = [pc |-> "register", job |-> NoJob]]
    /\ resp' = NoResp
    /\ UNCHANGED workerFrame

\* the answer arrives and run_worker goes on: after register_with_master and
\* after upload_result to the head of the loop (send_heartbeat), after
\* send_heartbeat, whatever the answer says, to claim_job, after claim_job to
\* the job it got or, without a job, back to the head of the loop
WorkerReceive(w) ==
    /\ resp.op = Awaiting(w)
    /\ wproc' = [wproc EXCEPT ![w] =
                   CASE wproc[w].pc = "heartbeat" -> [pc |-> "claim", job |-> NoJob]
                     [] wproc[w].pc = "claim" /\ resp.id # NoJob ->
                            [pc |-> "work", job |-> resp.id]
                     [] OTHER -> [pc |-> "heartbeat", job |-> NoJob]]
    /\ resp' = NoResp
    /\ UNCHANGED workerFrame

\* the download of the input and the strategy run: they succeed and the
\* process goes on to upload_result, or one of them raises and the loop
\* continues at its head
WorkerWork(w, ok) ==
    /\ wproc[w].pc = "work"
    /\ wproc' = [wproc EXCEPT ![w] = IF ok THEN [@ EXCEPT !.pc = "upload_result"]
                                     ELSE [pc |-> "heartbeat", job |-> NoJob]]
    /\ resp' = NoResp
    /\ UNCHANGED workerFrame

\* the steps of the worker process itself
ProcNext ==
    \/ \E w \in Procs : WorkerStart(w)
    \/ \E w \in Procs : WorkerReceive(w)
    \/ \E w \in Procs, ok \in BOOLEAN : WorkerWork(w, ok)

\* the server serving the calls of the worker processes
CallsNext ==
    \/ \E t \in Threads, w \in Procs :
          ~Answered /\ wproc[w].pc = "register" /\ RegisterWorker(t, w)
    \/ \E t \in Threads, w \in Procs :
          ~Answered /\ wproc[w].pc = "heartbeat" /\ Heartbeat(t, w, <<"aware", clock>>)
    \/ \E t \in Threads : ~Answered /\ HeartbeatTime(t)
    \/ \E t \in Threads : ~Answered /\ HeartbeatStatus(t)
    \/ \E t \in Threads, w \in Procs :
          ~Answered /\ wproc[w].pc = "claim" /\ ClaimBegin(t)
    \/ \E t \in Threads, p \in {"1", "2"} : ~Answered /\ ClaimPop(t, p)
    \/ \E t \in Threads, a \in WorkerAddrs : ~Answered /\ ClaimRead(t, a)
    \/ \E t \in Threads : ~Answered /\ ClaimWrite(t)
    \/ \E t \in Threads, w \in Procs :
          ~Answered /\ wproc[w].pc = "upload_result" /\ UploadResult(t, wproc[w].job)
    \/ \E t \in Threads : ~Answered /\ UploadResultWrite(t)

\* a client submits a job or lists the workers
ClientBegin ==
    \/ \E t \in Threads, prio \in PrioSet :
          ~Answered /\ nextId <= LoopJobs /\ Upload(t, prio)
    \/ \E t \in Threads, order \in WorkerOrders : ~Answered /\ GetWorkers(t, order)

\* the server goes on with the request of the client
ClientSteps ==
    \/ \E t \in Threads : ~Answered /\ UploadPush(t)
    \/ \E t \in Threads : ~Answered /\ GetWorkersRead(t)
    \/ \E t \in Threads : ~Answered /\ GetWorkersDelete(t)

LoopNext ==
    \/ ProcNext
    \/ CallsNext
    \/ ClientBegin
    \/ ClientSteps
    \/ ~Answered /\ PrunerNext
    \/ ~Answered /\ Elapse

\* worker processes beside the server and its prune thread
SpecWorkerLoop == Init /\ [][LoopNext]_vars

\* ------------------------------------------------------------ properties
Status(j) == Get(store[j], "status", "")
Quiescent == phase = "up" /\ \A t \in Threads : pc[t] = "idle"
Count(x, s) == Cardinality({i \in 1..Len(s) : s[i] = x})
PrioNum(p) == CHOOSE n \in 1..3 : Prios[n] = p
\* a step in which thread t pops a job id off a list
Pops(t) == pc[t] \in {"idle", "cl_pop0", "cl_pop1", "cl_pop2"} /\ pc'[t] = "cl_read"
LogIndex(log, x) == CHOOSE i \in 1..Len(log) : log[i][1] = x
Pending == {enqLog[i] : i \in 1..Len(enqLog)}

\* C1: under any interleaving of claim calls with submit, deleteJob and
\* restarts with startup recovery, no job id is carried by two claim_job
\* responses.
C1_NeverClaimedTwice == \A j \in JobIds : returned[j] <= 1

C1_Witness ==
    /\ crashes = 1
    /\ returned[1] = 1
    /\ resp = [op |-> "claim_job", code |-> 200, id |-> 2]

\* C2: N claim calls racing for lists that hold N distinct queued ids: no call
\* answers "No jobs in any queue", no id is returned twice, and once all calls
\* have returned every id has been returned exactly once.
C2_RaceReturnsAll ==
    /\ ~(resp.op = "claim_job" /\ resp.id = NoJob)
    /\ \A j \in JobIds : returned[j] <= 1
    /\ (\A t \in Threads : pc[t] = "idle") => \A j \in 1..RaceN : returned[j] = 1

C2_Witness ==
    /\ \A t \in Threads : pc[t] = "idle"
    /\ \A j \in 1..RaceN : returned[j] = 1
    /\ resp.op = "claim_job"

StatusRank(st) == IF st = "queued" THEN 1 ELSE IF st = "claimed" THEN 2 ELSE 3

\* C3: the status of a job only advances along queued -> claimed -> completed:
\* no step takes the status of a job record back to an earlier value.
C3_StatusNeverRegresses ==
    [][\A j \in JobIds :
         (store[j] # NoRecord /\ store'[j] # NoRecord)
            => StatusRank(Get(store'[j], "status", "")) >= StatusRank(Status(j))]_vars

\* C4: after completed operations a job id is in a priority list iff its
\* record has status queued, and then exactly once, in the list of its own
\* priority only.
C4_QueuedIffInQueue ==
    Quiescent =>
      \A j \in JobIds, p \in PrioSet :
         /\ InSeq(j, queue[p]) <=> (Status(j) = "queued" /\ store[j]["priority"] = p)
         /\ Count(j, queue[p]) <= 1

\* C5: whatever point the process stopped at, and whether or not the lists
\* were lost, startup recovery leaves every record with status queued in the
\* list of its priority, and enqueues no job whose status is claimed or
\* completed.
C5_RecoveryRestoresQueued ==
    [][(phase = "down" /\ phase' = "up") =>
         /\ \A j \in JobIds :
              Get(store'[j], "status", "") = "queued"
                 => InSeq(j, queue'[store'[j]["priority"]])
         /\ \A j \in JobIds, p \in PrioSet :
              Count(j, queue'[p]) > Count(j, queue[p]) => Status(j) = "queued"]_vars

C5_Witness ==
    /\ resp.op = "repopulate_queues" /\ resp.code = 1
    /\ \E j, k \in JobIds :
         /\ Status(j) = "queued" /\ InSeq(j, queue[store[j]["priority"]])
         /\ Status(k) = "claimed" /\ \A p \in PrioSet : ~InSeq(k, queue[p])

\* C6: recovery is idempotent: in whatever order the keys are listed, a second
\* run of recovery leaves the lists as the first run left them, and no list
\* holds a job id twice.
C6_RecoveryIdempotent ==
    \A o1, o2 \in KeyOrders :
       LET once == repopulate_queues(store, queue, o1)
       IN /\ repopulate_queues(store, once, o2) = once
          /\ \A j \in JobIds, p \in PrioSet : Count(j, once[p]) <= 1

C6_Witness ==
    /\ phase = "down"
    /\ \A j \in JobIds : Status(j) = "queued"
    /\ \A p \in PrioSet : queue[p] = <<>>

\* C7: priority dominates submission order: a claim call never pops a job
\* while a job of a more urgent priority that was already pending when the
\* call began is still pending, whichever of the two was enqueued first.
C7_PriorityDominates ==
    [][\A t \in Threads :
         Pops(t) =>
           \A e \in seen'[t] \cap Pending :
              PrioNum(e[2]) >= PrioNum(enqLog[LogIndex(enqLog, arg'[t])][2])]_vars

C7_Witness ==
    /\ \E t \in Threads : pc[t] = "cl_read" /\ arg[t] = 2
    /\ store[1] # NoRecord /\ store[2] # NoRecord
    /\ store[2]["priority"] = "0"
    /\ enqLog = << <<1, "1">> >>

\* C8: FIFO within a priority level: a claim call never pops a job while a
\* job of the same priority whose rpush happened earlier is still pending
\* (deleted jobs are no longer pending).
C8_FifoWithinPriority ==
    [][\A t \in Threads :
         Pops(t) =>
           LET k == LogIndex(enqLog, arg'[t])
           IN \A i \in 1..(k-1) : enqLog[i][2] # enqLog[k][2]]_vars

C8_Witness ==
    /\ \E t \in Threads : pc[t] = "cl_read" /\ arg[t] = 1
    /\ enqLog = << <<2, "1">> >>
    /\ store[1] # NoRecord /\ store[1]["priority"] = "1"

\* C9: mark_collected on a job whose status is queued or claimed answers 400
\* (InvalidState), on an id without record 404 (NotFound); in both cases the
\* call ends there and the records and the lists stay as they were.
C9_MarkCollectedRejects ==
    [][\A t \in Threads, j \in JobIds :
         (MarkCollected(t, j) /\ (store[j] = NoRecord \/ Status(j) \in {"queued", "claimed"}))
            => /\ resp' = [op |-> "mark_collected", id |-> j,
                           code |-> IF store[j] = NoRecord THEN 404 ELSE 400]
               /\ pc'[t] = "idle"
               /\ store' = store
               /\ queue' = queue]_vars

C9_Witness ==
    /\ resp.op = "mark_collected" /\ resp.code = 400
    /\ Status(resp.id) = "claimed"
    /\ store[resp.id]["collected"] = "False"

\* C10: mark_collected on a completed job succeeds every time: the call goes
\* on to its write and answers 200, the write sets collected to "True" and
\* changes nothing else, so a second call leaves the state as the first left it.
C10_MarkCollectedIdempotent ==
    [][\A t \in Threads :
         /\ \A j \in JobIds :
              (MarkCollected(t, j) /\ Status(j) = "completed") => pc'[t] = "mc_write"
         /\ MarkCollectedWrite(t) =>
              /\ resp' = [op |-> "mark_collected", code |-> 200, id |-> arg[t]]
              /\ queue' = queue
              /\ store' = [store EXCEPT ![arg[t]] = [@ EXCEPT !["collected"] = "True"]]
              /\ (store[arg[t]]["collected"] = "True" => store' = store)]_vars

C10_Witness ==
    /\ pc[1] = "mc_write" /\ arg[1] = 1
    /\ Status(1) = "completed"
    /\ store[1]["collected"] = "True"
    /\ returned[1] = 1

Collected(st, j) == Get(st[j], "collected", "False") = "True"

\* C11: in every state a job whose collected flag is "True" has status
\* "completed", and no step turns the flag of a job record from "True" back
\* to "False".
C11_CollectedOnlyCompletedAndSticky ==
    [][\A j \in JobIds :
         /\ Collected(store', j) => Get(store'[j], "status", "") = "completed"
         /\ Collected(store, j) /\ store'[j] # NoRecord => Collected(store', j)]_vars

\* C12: every record of the worker registry carries the full descriptor that a
\* register_worker call writes: a heartbeat never creates a record, also when
\* the prune thread or get_workers deletes the record while the heartbeat call
\* is between its r.exists and its r.hset.
C12_RecordsCarryFullDescriptor ==
    \A w \in WorkerIds : workers[w] # NoRecord => DOMAIN workers[w] = WorkerFields

\* the prune thread is scheduled again and again: prune_loop sleeps five
\* seconds between two scans and waits for nothing else
SpecWorkersFair == Init /\ [][WorkerNext]_vars /\ WF_vars(PrunerNext)

\* the record of w is the one register_worker wrote, no heartbeat has touched
\* it, and it is older than the prune timeout
RegisteredStale(w) ==
    /\ DOMAIN workers[w] = WorkerFields
    /\ workers[w] = worker_data(w, workers[w]["last_heartbeat"][2])
    /\ clock - workers[w]["last_heartbeat"][2] > PruneTimeout

\* C13: a worker that registered and has sent no heartbeat for longer than the
\* prune timeout is eventually absent from the registry (unless it registers
\* or sends a heartbeat again before), when the prune thread keeps being
\* scheduled.
C13_StaleWorkerEventuallyPruned ==
    \A w \in WorkerIds :
        RegisteredStale(w) ~> (workers[w] = NoRecord \/ ~RegisteredStale(w))

\* C14: upload_result on a job whose status is "claimed" writes status
\* "completed", a result_filename, timestamp_completed, collected "False" and
\* elapsed_seconds = timestamp_completed - timestamp_claimed, which is not
\* negative, and answers 200; upload_result on an id without record answers
\* 404 and leaves the records and the lists as they were.
C14_ReportResultCompletes ==
    [][\A t \in Threads :
         /\ (UploadResultWrite(t) /\ Status(arg[t]) = "claimed") =>
              LET job == store'[arg[t]]
              IN  /\ job["status"] = "completed"
                  /\ Truthy(job, "result_filename")
                  /\ Truthy(job, "timestamp_completed")
                  /\ job["collected"] = "False"
                  /\ job["elapsed_seconds"] =
                       job["timestamp_completed"] - store[arg[t]]["timestamp_claimed"]
                  /\ job["elapsed_seconds"] >= 0
                  /\ resp' = [op |-> "upload_result", code |-> 200, id |-> arg[t]]
         /\ \A j \in JobIds :
              (UploadResult(t, j) /\ store[j] = NoRecord) =>
                  /\ resp' = [op |-> "upload_result", code |-> 404, id |-> j]
                  /\ pc'[t] = "idle"
                  /\ store' = store
                  /\ queue' = queue]_vars

C14_Witness ==
    /\ resp.op = "upload_result" /\ resp.code = 200
    /\ Status(resp.id) = "completed"
    /\ store[resp.id]["claimed_by"] # ""
    /\ store[resp.id]["elapsed_seconds"] = 1
    /\ store[resp.id]["collected"] = "False"

AllEmpty(q) == \A p \in PrioSet : q[p] = <<>>

\* C15: claim_job never waits: a step of the call that finds the three lists
\* empty moves on to a later list or answers, the answer after the last list
\* is 200 with the 'no jobs' message and no job, and the step leaves every job
\* record, every list and every worker record as it was. While a call that
\* found a list empty is under way alone, that list is still empty.
C15_EmptyClaimReturnsNoWork ==
    [][\A t \in Threads :
         /\ ((ClaimBegin(t) \/ \E p \in PrioSet : ClaimPop(t, p)) /\ AllEmpty(queue)) =>
              /\ store' = store
              /\ queue' = queue
              /\ workers' = workers
              /\ \/ pc[t] \in {"idle", "cl_pop0"} /\ pc'[t] = "cl_pop1"
                 \/ pc[t] = "cl_pop1" /\ pc'[t] = "cl_pop2"
                 \/ /\ pc[t] = "cl_pop2"
                    /\ pc'[t] = "idle"
                    /\ resp' = [op |-> "claim_job", code |-> 200, id |-> NoJob]
         /\ pc'[t] = "cl_pop1" => queue'["0"] = <<>>
         /\ pc'[t] = "cl_pop2" => queue'["0"] = <<>> /\ queue'["1"] = <<>>]_vars

C15_Witness ==
    /\ resp = [op |-> "claim_job", code |-> 200, id |-> NoJob]
    /\ AllEmpty(queue)
    /\ Status(1) = "claimed"
    /\ returned[1] = 1

\* the id j was handed out and its record is gone: delete_job removed it
Deleted(j) == j < nextId /\ store[j] = NoRecord

\* C16: when delete_job answers 200 the record of the id is gone and the id is
\* in none of the lists, and from then on no step brings the record or a list
\* entry of a deleted id back, also not the late write of a call that was
\* under way during the delete; delete_job on an id without record answers
\* 404 and changes nothing.
C16_DeletedStaysDeleted ==
    [][/\ \A t \in Threads :
            /\ DeleteKey(t) => /\ store'[arg[t]] = NoRecord
                              /\ \A p \in PrioSet : ~InSeq(arg[t], queue'[p])
            /\ \A j \in JobIds :
                 (DeleteJob(t, j) /\ store[j] = NoRecord) =>
                     /\ resp' = [op |-> "delete_job", code |-> 404, id |-> j]
                     /\ store' = store
                     /\ queue' = queue
       /\ \A j \in JobIds :
            Deleted(j) => Deleted(j)' /\ \A p \in PrioSet : ~InSeq(j, queue'[p])]_vars

\* C17: claim_job behaves as one atomic dequeue of the most urgent pending
\* job, also while uploads interleave: a claim call never pops a job Y while a
\* more urgent job X whose rpush happened before the rpush of Y is still
\* pending.
C17_ClaimLinearizable ==
    [][\A t \in Threads :
         Pops(t) =>
           LET k == LogIndex(enqLog, arg'[t])
           IN \A i \in 1..(k-1) : PrioNum(enqLog[i][2]) >= PrioNum(enqLog[k][2])]_vars

\* C18: when the id a claim call popped has no job record, the call goes on
\* to the next candidate (or answers 'no jobs'): it does not go on to its
\* write, and a call that read no record neither creates a record for the id
\* nor answers with the id as a claimed job.
C18_MissingRecordSkipped ==
    [][\A t \in Threads :
         /\ (pc[t] = "cl_read" /\ store[arg[t]] = NoRecord) => pc'[t] # "cl_write"
         /\ (ClaimWrite(t) /\ "id" \notin DOMAIN local[t]) =>
               /\ store'[arg[t]] = NoRecord
               /\ resp' # [op |-> "claim_job", code |-> 200, id |-> arg[t]]]_vars

\* C19: when no request is under way, every job record has claimed_by and
\* timestamp_claimed set exactly when its status is "claimed" or "completed",
\* and result_filename and timestamp_completed set exactly when its status is
\* "completed".
C19_FieldsMatchStatus ==
    Quiescent =>
      \A j \in JobIds :
         store[j] # NoRecord =>
            /\ Truthy(store[j], "claimed_by") <=> Status(j) \in {"claimed", "completed"}
            /\ Truthy(store[j], "timestamp_claimed") <=> Status(j) \in {"claimed", "completed"}
            /\ Truthy(store[j], "result_filename") <=> Status(j) = "completed"
            /\ Truthy(store[j], "timestamp_completed") <=> Status(j) = "completed"

\* C20: the prune thread never ends: whatever record prune_dead_workers reads
\* (last_heartbeat missing, unparseable, or with a UTC offset that the naive
\* clock reading cannot be compared with), the scan deletes the record or goes
\* on to the next key, and the loop goes back to sleep after the last key.
C20_PrunerNeverStops ==
    [][PruneRead => /\ pruner'.pc \in {"del", "read", "sleep"}
                    /\ pruner' \in {PruneAdvance, [pruner EXCEPT !.pc = "del"]}]_vars

\* the record w has a last_heartbeat that parses and is at most cutoff
\* seconds older than the clock reading now
Fresh(w, now, cutoff) ==
    /\ "last_heartbeat" \in DOMAIN w
    /\ Parses(w["last_heartbeat"])
    /\ now[2] - w["last_heartbeat"][2] <= cutoff

\* C21: get_workers always completes with 200: for every record it reads,
\* whatever wrote it (also a register_worker call no heartbeat followed), it
\* appends the record to its result when the last heartbeat is at most 20
\* seconds old, and otherwise (stale, unparseable or empty) deletes the key
\* and leaves the record out of the result.
C21_ListActiveCompletes ==
    [][\A t \in Threads :
         /\ GetWorkersRead(t) =>
              LET w == workers[Head(local[t].keys)]
                  reported == IF pc'[t] = "idle" THEN resp'.workers ELSE local'[t].active
              IN  /\ resp'.code # 500
                  /\ IF w # NoRecord /\ Fresh(w, local[t].now, ActiveCutoff)
                     THEN pc'[t] # "gw_del" /\ reported = Append(local[t].active, w)
                     ELSE pc'[t] = "gw_del"
         /\ GetWorkersDelete(t) =>
              /\ workers'[Head(local[t].keys)] = NoRecord
              /\ (IF pc'[t] = "idle" THEN resp'.workers ELSE local'[t].active)
                    = local[t].active]_vars

\* the worker process, the request threads and the prune thread are each
\* scheduled again and again, and the server gets round to every call of a
\* worker process however many requests the client sends
SpecWorkerLoopFair ==
    /\ Init
    /\ [][LoopNext]_vars
    /\ WF_vars(ProcNext)
    /\ SF_vars(CallsNext)
    /\ WF_vars(ClientSteps)
    /\ WF_vars(~Answered /\ PrunerNext)

\* the process of w is past its registration and the registry holds no
\* record of w: the record was evicted
Evicted(w) == wproc[w].pc \notin {"off", "register"} /\ workers[w] = NoRecord

\* C22: a running worker process whose record was evicted is eventually
\* present in the registry again, when the process, the server and the prune
\* thread keep being scheduled.
C22_EvictedWorkerComesBack ==
    \A w \in Procs : Evicted(w) ~> (workers[w] # NoRecord)

\* submit, claim and the result handlers with requests in flight concurrently
MutateNext ==
    \/ \E t \in Threads : Upload(t, "1")
    \/ \E t \in Threads : UploadPush(t)
    \/ ClaimNext
    \/ \E t \in Threads, j \in JobIds : UploadResult(t, j)
    \/ \E t \in Threads : UploadResultWrite(t)
    \/ \E t \in Threads, j \in JobIds : MarkCollected(t, j)
    \/ \E t \in Threads : MarkCollectedWrite(t)
    \/ Tick

SpecMutate == InitThreaded /\ [][MutateNext]_vars

\* the step changes, of all job records, at most the given fields of job j
OnlyChanges(j, fields) ==
    /\ \A k \in JobIds \ {j} : store'[k] = store[k]
    /\ \A f \in DOMAIN store'[j] \ fields :
          f \in DOMAIN store[j] /\ store'[j][f] = store[j][f]

\* C23: the write of a job mutation changes only the fields the operation
\* names, also when another operation wrote the same record between its read
\* and its write, and never the record of another job: claim_job only status,
\* timestamp_claimed and claimed_by; upload_result only status,
\* result_filename, timestamp_completed, collected and elapsed_seconds;
\* mark_collected only collected.
C23_WritesOnlyNamedFields ==
    [][\A t \in Threads :
         /\ ClaimWrite(t) =>
              OnlyChanges(arg[t], {"status", "timestamp_claimed", "claimed_by"})
         /\ UploadResultWrite(t) =>
              OnlyChanges(arg[t], {"status", "result_filename", "timestamp_completed",
                                   "collected", "elapsed_seconds"})
         /\ MarkCollectedWrite(t) => OnlyChanges(arg[t], {"collected"})]_vars

\* ------------------------------------------------------------ purge_all
\* the keys of the Redis database: one hash per job record, one list per
\* priority that holds at least one id (Redis keeps no empty list), one hash
\* per worker record
redis_keys ==
    {<<"job", j, "">> : j \in {i \in JobIds : store[i] # NoRecord}}
    \cup {<<"list", NoJob, p>> : p \in {q \in PrioSet : queue[q] # <<>>}}
    \cup {<<"worker", NoJob, w>> : w \in {v \in WorkerIds : workers[v] # NoRecord}}

PurgePc(p) == IF p = "0" THEN "pg_list0" ELSE IF p = "1" THEN "pg_list1" ELSE "pg_list2"

\* r.delete(name) of a list
DropList(log, s) == SelectSeq(log, LAMBDA e : ~InSeq(e[1], s))

\* the counters are set and r.scan_iter("*") answers; job_records is history:
\* the number of job records when the request arrived
PurgeAll(t) ==
    /\ Ready(t)
    /\ pc' = [pc EXCEPT ![t] = IF redis_keys = {} THEN PurgePc("0") ELSE "pg_del"]
    /\ local' = [local EXCEPT ![t] =
                    [keys |-> redis_keys, deleted_jobs |-> 0,
                     job_records |-> Cardinality({j \in JobIds : store[j] # NoRecord})]]
    /\ resp' = NoResp
    /\ UNCHANGED <<jobState, clock, workers, pruner, arg>>

\* one round of the scan loop: r.delete(key), whatever the key names, and the
\* counter goes up by one; the scan yields the keys in no particular order
PurgeDelete(t) ==
    /\ pc[t] = "pg_del"
    /\ \E k \in local[t].keys :
         /\ store' = IF k[1] = "job" THEN [store EXCEPT ![k[2]] = NoRecord] ELSE store
         /\ queue' = IF k[1] = "list" THEN [queue EXCEPT ![k[3]] = <<>>] ELSE queue
         /\ enqLog' = IF k[1] = "list" THEN DropList(enqLog, queue[k[3]]) ELSE enqLog
         /\ workers' = IF k[1] = "worker" THEN [workers EXCEPT ![k[3]] = NoRecord]
                       ELSE workers
         /\ local' = [local EXCEPT ![t] = [@ EXCEPT !.keys = @ \ {k},
                                                     !.deleted_jobs = @ + 1]]
         /\ pc' = [pc EXCEPT ![t] = IF local[t].keys = {k} THEN PurgePc("0") ELSE "pg_del"]
    /\ resp' = NoResp
    /\ UNCHANGED <<nextId, clock, phase, slots, pruner, wproc, crashes, arg, returned, seen>>

\* r.delete(f"job_queue_prio{p}") for the three lists, then the answer (the
\* objects of the two buckets and files_deleted are outside the model); the
\* history value job_records travels with the answer
PurgeLists(t, p) ==
    /\ pc[t] = PurgePc(p)
    /\ queue' = [queue EXCEPT ![p] = <<>>]
    /\ enqLog' = DropList(enqLog, queue[p])
    /\ IF p = "2"
       THEN Finish(t, [op |-> "purge_all", code |-> 200, id |-> NoJob,
                       jobs_deleted |-> local[t].deleted_jobs,
                       job_records |-> local[t].job_records])
       ELSE /\ pc' = [pc EXCEPT ![t] = PurgePc(NextPrio(p))]
            /\ resp' = NoResp
            /\ UNCHANGED <<arg, local>>
    /\ UNCHANGED <<store, nextId, clock, phase, slots, workers, pruner, wproc, crashes, returned, seen>>

\* jobs are submitted and claimed, workers register, and the store is purged,
\* one request at a time
PurgeNext ==
    \/ \E t \in Threads, prio \in PrioSet : Upload(t, prio)
    \/ \E t \in Threads : UploadPush(t)
    \/ ClaimNext
    \/ \E t \in Threads, w \in WorkerIds : RegisterWorker(t, w)
    \/ \E t \in Threads : PurgeAll(t)
    \/ \E t \in Threads : PurgeDelete(t)
    \/ \E t \in Threads, p \in PrioSet : PurgeLists(t, p)

SpecPurge == Init /\ [][PurgeNext]_vars

\* C24: when purge_all answers, no job record is left, the three lists are
\* empty, and jobs_deleted is the number of job records that existed when the
\* request arrived.
C24_PurgeAllCountsJobs ==
    resp.op = "purge_all" =>
        /\ \A j \in JobIds : store[j] = NoRecord
        /\ \A p \in PrioSet : queue[p] = <<>>
        /\ resp.jobs_deleted = resp.job_records

====
